---- MODULE Spec2Model ----
(***************************************************************************)
(* Model of the scoring orchestrator of ab_sniffer:                        *)
(*   src/src/api/endpoints/challenge/service.py  (broker, score, results)  *)
(*   src/src/api/endpoints/challenge/utils.py    (sequence, container run) *)
(*   src/src/api/endpoints/challenge/router.py   (POST /score, /driver)    *)
(*                                                                         *)
(* Python str values are sequences of one-character strings, so that       *)
(* str.strip() is computed and not assumed.  Values that are not str       *)
(* (None, the fixed placeholder texts) are one-element sequences holding   *)
(* a long token, which no str of single characters can equal.              *)
(***************************************************************************)
EXTENDS Integers, Sequences, FiniteSets, TLC

\* ------------------------------------------------------------------ bounds
MaxRuns   == 2      \* POST /score requests served in one behaviour

\* --------------------------------------------------------------- constants
DRIVER_GRACE_SECONDS == 5

\* Threads that can execute the sync handler post_score.
Workers == {"w1", "w2"}
WorkerOrder == [w \in Workers |-> IF w = "w1" THEN 1 ELSE 2]

\* config.challenge.pushcut_timeout / bot_timeout: the values the model
\* draws; with the grace period they give wait timeouts of -1, 0 and 1.
ConfigTimeouts == {-6, -5, -4}

None     == <<"None">>
HUMAN    == <<"h", "u", "m", "a", "n">>
CHROME   == <<"c", "h", "r", "o", "m", "e">>
EMPTYSTR == <<>>

NO_DRIVER_REPORTED == <<"No driver reported">>
NO_DRIVER_RETURNED == <<"The script did not return any driver">>
ERROR_PREDICTED    == <<"Error: ...">>

\* Deployments explored: the threads of the server's pool that execute the
\* sync handler post_score, config.challenge.framework_images (the
\* framework_name of each entry) and config.challenge.repeated_framework_count.
Configs ==
    { [pool |-> {"w1"},       images |-> <<HUMAN, CHROME>>, count |-> 0],
      [pool |-> {"w1"},       images |-> <<HUMAN, CHROME>>, count |-> 1],
      [pool |-> {"w1"},       images |-> <<CHROME>>,        count |-> 2],
      [pool |-> {"w1", "w2"}, images |-> <<HUMAN>>,         count |-> 1],
      [pool |-> {"w1", "w2"}, images |-> <<CHROME>>,        count |-> 1] }

\* Bodies of POST /driver requests.
DriverInputs ==
    { None, EMPTYSTR, <<" ">>, HUMAN, CHROME,
      <<" ">> \o CHROME, CHROME \o <<" ">>, <<" ">> \o HUMAN \o <<" ">> }

\* ----------------------------------------------------------- pure helpers
Max(a, b) == IF a >= b THEN a ELSE b

RECURSIVE GCD(_, _)
GCD(a, b) == IF b = 0 THEN a ELSE GCD(b, a % b)

RECURSIVE LStrip(_)
LStrip(s) == IF s # <<>> /\ Head(s) = " " THEN LStrip(Tail(s)) ELSE s

RECURSIVE RStrip(_)
RStrip(s) ==
    IF s # <<>> /\ s[Len(s)] = " " THEN RStrip(SubSeq(s, 1, Len(s) - 1)) ELSE s

\* str.strip()
Strip(s) == RStrip(LStrip(s))

\* (x or ""): a falsy x (None or "") gives ""
OrEmpty(x) == IF x = None \/ x = EMPTYSTR THEN EMPTYSTR ELSE x

\* Variant: the value is returned as it is.
OrNone_Keep(x) == x

\* (x or None)
OrNone(x) == IF x = EMPTYSTR THEN None ELSE x

RECURSIVE Flatten(_)
Flatten(ss) == IF ss = <<>> THEN <<>> ELSE Head(ss) \o Flatten(Tail(ss))

RECURSIVE SetToSeq(_)
SetToSeq(S) ==
    IF S = {} THEN <<>>
    ELSE LET m == CHOOSE x \in S : \A y \in S : x <= y
         IN  <<m>> \o SetToSeq(S \ {m})

Count(s, x) == Cardinality({i \in 1..Len(s) : s[i] = x})

RECURSIVE SumFn(_, _)
SumFn(f, S) ==
    IF S = {} THEN 0
    ELSE LET x == CHOOSE y \in S : TRUE IN f[x] + SumFn(f, S \ {x})

Last(s) == s[Len(s)]

\* Variant: floor division where true division is meant.
TrueDiv_Floor(a, b) == <<a \div b, 1>>

\* Python float result of a / b (b > 0), kept exact as a reduced fraction.
TrueDiv(a, b) == LET g == GCD(a, b) IN <<a \div g, b \div g>>

ZERO_FLOAT == <<0, 1>>

\* ------------------------------------------------------------------- state
VARIABLES
    config,          \* the deployment: thread pool and framework_images
    waitersAttr,     \* runtime: does threading.Condition expose `.waiters`?
    pc,              \* position of each worker inside post_score / score
    seq,             \* random_frameworks of the worker's run
    index,           \* loop variable `index` (0-based, as enumerate gives)
    result,          \* human_driver / detected_driver of the current trial
    remaining,       \* deadline - time.monotonic() of the current wait
    score_val,       \* local _score
    raised,          \* score is leaving through its except/raise path
    response,        \* what the POST /score handler returned last
    detection_dict,  \* module global detection_dict
    driver_queue,    \* module global _driver_queue
    waiters,         \* threads blocked in _driver_condition.wait, in order
    containers,      \* containers existing in the docker engine
    \* history variables, read by the properties only
    nruns,           \* runs started
    latest,          \* the worker whose run started last
    saw,             \* reports submitted during the worker's current trial
    owed,            \* a report was submitted while the worker's current
                     \* trial was blocked in its wait
    got,             \* the queue entry the worker's wait popped
    avail,           \* a report was in the queue during the worker's wait
    cur,             \* the worker's current trial: what failed, how many
                     \* stop+remove attempts its runner made
    rlog             \* the worker's run: did a runner raise, how many
                     \* outcomes it appended

prog  == <<config, waitersAttr, pc, seq, index, result, remaining, score_val, raised,
           response, detection_dict, driver_queue, waiters, containers>>
hist  == <<nruns, latest, saw, owed, got, avail, cur, rlog>>
vars  == <<prog, hist>>

\* utils.gen_ran_framework_sequence: the configured list repeated `count`
\* times and shuffled; every arrangement is a possible result.
gen_ran_framework_sequence ==
    LET framework_images == config.images
        count == config.count
        names == {framework_images[i] : i \in 1..Len(framework_images)}
        n     == count * Len(framework_images)
    IN  { s \in [1..n -> names] :
            \A f \in names : Count(s, f) = count * Count(framework_images, f) }

EmptyDict == [i \in {} |-> <<>>]

\* detection_dict[i].append(o) on a defaultdict(list)
DictAppend(dd, i, o) ==
    [k \in DOMAIN dd \cup {i} |->
        IF k = i THEN Append(IF i \in DOMAIN dd THEN dd[i] ELSE <<>>, o)
        ELSE dd[k]]

\* The trial a worker is executing.
TK(w) == <<w, index[w]>>

\* framework_entry.framework_name of the current trial
FrameworkName(w) == seq[w][index[w] + 1]

\* Between the pre-trial clear and the end of the trial's broker wait.
TrialPcs == {"runner", "container", "wait_enter", "waiting", "notified"}
InTrial(w) == pc[w] \in TrialPcs

\* Between the initial reset and the final broker clear of score.
InFlight(w) == pc[w] \in TrialPcs \cup {"loop", "record", "finally"}

\* Origin of a report that no driver of a trial in progress produced (a
\* driver of an earlier run, any other client), or whose sender is not
\* traced.
Elsewhere == <<"elsewhere", 0>>

NoReport == [val |-> None, owed |-> {}, none |-> TRUE, src |-> Elsewhere]
NoSaw    == [expected |-> FALSE, other |-> FALSE]
NewTrial == [fail |-> "none", cleanups |-> 0]
NewRun   == [network_at |-> {}, launch_at |-> {}, pushcut_at |-> {}, appended |-> 0]
NoResponse == [kind |-> "none", value |-> <<0, 1>>]

Init ==
    /\ config \in Configs
    /\ waitersAttr \in BOOLEAN
    /\ pc = [w \in Workers |-> "idle"]
    /\ seq = [w \in Workers |-> <<>>]
    /\ index = [w \in Workers |-> 0]
    /\ result = [w \in Workers |-> None]
    /\ remaining = [w \in Workers |-> 0]
    /\ score_val = [w \in Workers |-> ZERO_FLOAT]
    /\ raised = [w \in Workers |-> FALSE]
    /\ response = [w \in Workers |-> NoResponse]
    /\ detection_dict = EmptyDict
    /\ driver_queue = <<>>
    /\ waiters = <<>>
    /\ containers = {}
    /\ nruns = 0
    /\ latest = "none"
    /\ saw = [w \in Workers |-> NoSaw]
    /\ owed = [w \in Workers |-> FALSE]
    /\ got = [w \in Workers |-> NoReport]
    /\ avail = [w \in Workers |-> FALSE]
    /\ cur = [w \in Workers |-> NewTrial]
    /\ rlog = [w \in Workers |-> NewRun]

\* ------------------------------------------------------ broker (service.py)
\* Condition.notify(): the longest-waiting thread leaves the waiter list
\* and will re-acquire the lock.
Notify(ws, pcs) ==
    IF ws = <<>> THEN pcs ELSE [pcs EXCEPT ![Head(ws)] = "notified"]

AfterNotify(ws) == IF ws = <<>> THEN ws ELSE Tail(ws)

\* Variant: every report is queued, waiter or not.
HasWaiters_Always == TRUE

\* `if _driver_condition.waiters:` where the attribute exists.
HasWaiters == waiters # <<>>

\* The trials of worker w's run whose driver has been started: the human
\* was notified or the bot container launched.
DriverStarted(w) ==
    {j \in 0..(Len(seq[w]) - 1) :
        \/ j < index[w] /\ j \notin rlog[w].network_at \cup rlog[w].launch_at
        \/ j = index[w] /\ pc[w] \in {"container", "wait_enter", "waiting", "notified"}}

\* Every trial a deployment can have, and Elsewhere.
AllOrigins ==
    UNION {{<<w, j>> : j \in 0..(c.count * Len(c.images) - 1)} :
              w \in Workers, c \in Configs} \cup {Elsewhere}

\* Who can have produced a report that arrives now: a driver that has been
\* started, when there is one.
Origins ==
    LET started == UNION {{<<w, j>> : j \in DriverStarted(w)} : w \in Workers}
    IN  IF started = {} THEN {Elsewhere} ELSE started

\* The lookup `_driver_condition.waiters` raises AttributeError where the
\* Condition keeps its waiter list private.
WaitersLookupRaises == ~waitersAttr

\* The status POST /driver answers with: the router turns any exception of
\* service.post_driver into HTTPException(500), else it returns normally.
post_driver_status == IF WaitersLookupRaises THEN 500 ELSE 200

\* POST /driver -> service.post_driver(driver).  The attribute lookup
\* `_driver_condition.waiters` raises AttributeError on a runtime whose
\* Condition keeps its waiter list private (CPython names it `_waiters`);
\* the router turns that into a 500.  On a runtime exposing the list the
\* report is queued only when a thread is blocked in wait().  src is a
\* history tag naming the sender; the code keeps none.
post_driver(d, src) ==
    /\ LET driver_value == Strip(OrEmpty(d))
           blocked      == {w \in Workers : pc[w] = "waiting"}
       IN  /\ saw' = [w \in Workers |->
                        IF ~InTrial(w) THEN saw[w]
                        ELSE [expected |-> saw[w].expected
                                           \/ driver_value = FrameworkName(w),
                              other    |-> saw[w].other
                                           \/ (/\ driver_value # EMPTYSTR
                                               /\ driver_value # FrameworkName(w))]]
           /\ owed' = [w \in Workers |->
                        owed[w] \/ w \in blocked]
           /\ IF ~WaitersLookupRaises /\ HasWaiters
              THEN /\ driver_queue' =
                        Append(driver_queue,
                               [val |-> driver_value,
                                owed |-> {TK(w) : w \in blocked},
                                none |-> FALSE,
                                src  |-> src])
                   /\ pc' = Notify(waiters, pc)
                   /\ waiters' = AfterNotify(waiters)
                   /\ avail' = [w \in Workers |->
                                  avail[w] \/ pc[w] \in {"waiting", "notified"}]
              ELSE UNCHANGED <<driver_queue, pc, waiters, avail>>
    /\ UNCHANGED <<config, waitersAttr, seq, index, result, remaining, score_val,
                   raised, response, detection_dict, containers>>
    /\ UNCHANGED <<nruns, latest, got, cur, rlog>>

\* POST /driver made by the driver of a started trial, the report tagged
\* with that trial.
post_driver_from(d, src) ==
    /\ src \in Origins
    /\ post_driver(d, src)

\* Variant: the loop is left only once the deadline is strictly behind.
DeadlinePassed_Strict(rem) == rem < 0

\* `if remaining <= 0: break`
DeadlinePassed(rem) == rem <= 0

\* Variant: deque.pop(), which takes the newest entry.
popleft_Pop(q) == [item |-> q[Len(q)], rest |-> SubSeq(q, 1, Len(q) - 1)]

\* _driver_queue.popleft(): the oldest entry and the queue without it.
popleft(q) == [item |-> Head(q), rest |-> Tail(q)]

\* One pass of the `while True` body of _wait_for_driver_result, made with
\* the lock held: rem is deadline - time.monotonic(), ws the waiter list
\* once this thread is out of it.
WaitLoop(w, rem, ws) ==
    /\ remaining' = [remaining EXCEPT ![w] = rem]
    /\ IF driver_queue # <<>>
       THEN LET head         == popleft(driver_queue).item
                driver_value == Strip(OrEmpty(head.val))
            IN  /\ driver_queue' = popleft(driver_queue).rest
                /\ result' = [result EXCEPT ![w] = OrNone(driver_value)]
                /\ got' = [got EXCEPT ![w] = head]
                /\ pc' = [pc EXCEPT ![w] = "record"]
                /\ waiters' = ws
       ELSE IF DeadlinePassed(rem)
       THEN /\ result' = [result EXCEPT ![w] = None]
            /\ pc' = [pc EXCEPT ![w] = "record"]
            /\ waiters' = ws
            /\ UNCHANGED <<driver_queue, got>>
       ELSE /\ pc' = [pc EXCEPT ![w] = "waiting"]
            /\ waiters' = Append(ws, w)
            /\ UNCHANGED <<driver_queue, result, got>>
    /\ UNCHANGED <<config, waitersAttr, seq, index, score_val, raised, response,
                   detection_dict, containers>>
    /\ UNCHANGED <<nruns, latest, saw, owed, cur, rlog>>

\* _wait_for_driver_result is entered: the deadline is fixed from
\* max(timeout_seconds, 0) and the first pass of the loop is made.
wait_enter(w) ==
    /\ pc[w] = "wait_enter"
    /\ \E cfg \in ConfigTimeouts :
          LET timeout_seconds == cfg + DRIVER_GRACE_SECONDS
          IN  WaitLoop(w, Max(timeout_seconds, 0), waiters)
    /\ avail' = [avail EXCEPT ![w] = driver_queue # <<>>]

\* The thread woken by notify() has the lock again and loops.
wait_notified(w) ==
    /\ pc[w] = "notified"
    /\ WaitLoop(w, remaining[w], waiters)
    /\ UNCHANGED avail

\* Condition.wait(timeout=remaining) times out: the thread takes the lock,
\* leaves the waiter list and loops.
wait_timeout(w) ==
    /\ pc[w] = "waiting"
    /\ remaining[w] = 0
    /\ WaitLoop(w, 0, SelectSeq(waiters, LAMBDA x : x # w))
    /\ UNCHANGED avail

\* Time passes for a thread inside its wait.
tick(w) ==
    /\ pc[w] \in {"waiting", "notified"}
    /\ remaining[w] > 0
    /\ remaining' = [remaining EXCEPT ![w] = @ - 1]
    /\ UNCHANGED <<config, waitersAttr, pc, seq, index, result, score_val, raised,
                   response, detection_dict, driver_queue, waiters, containers>>
    /\ UNCHANGED hist

\* --------------------------------------------------- score (service.py)
Outcome(w, detected, predicted) ==
    [detected  |-> detected,
     driver    |-> FrameworkName(w),
     predicted |-> predicted,
     by        |-> w]             \* history tag: the worker that recorded it

\* detection_dict[index].append(o), then the loop goes to its next entry.
\* rl is rlog with the step's own notes already made.
RecordOutcome(w, o, rl) ==
    /\ detection_dict' = DictAppend(detection_dict, index[w], o)
    /\ rlog' = [rl EXCEPT ![w].appended = @ + 1]
    /\ index' = [index EXCEPT ![w] = @ + 1]
    /\ pc' = [pc EXCEPT ![w] = "loop"]
    /\ saw' = [saw EXCEPT ![w] = NoSaw]
    /\ owed' = [owed EXCEPT ![w] = FALSE]
    /\ got' = [got EXCEPT ![w] = NoReport]
    /\ avail' = [avail EXCEPT ![w] = FALSE]
    /\ result' = [result EXCEPT ![w] = None]
    /\ remaining' = [remaining EXCEPT ![w] = 0]

\* The failed outcome of a trial whose body raised.
ErrorOutcome(w) == Outcome(w, FALSE, ERROR_PREDICTED)

\* Variant: no handler inside the loop; the error reaches the outer except
\* of score and ends the run.
TrialExcept_Abort(w, rl) ==
    /\ raised' = [raised EXCEPT ![w] = TRUE]
    /\ pc' = [pc EXCEPT ![w] = "finally"]
    /\ rlog' = rl
    /\ saw' = [saw EXCEPT ![w] = NoSaw]
    /\ owed' = [owed EXCEPT ![w] = FALSE]
    /\ got' = [got EXCEPT ![w] = NoReport]
    /\ avail' = [avail EXCEPT ![w] = FALSE]
    /\ UNCHANGED <<detection_dict, index, result, remaining>>

\* `except Exception as err:` of the trial, inside the for loop: the failed
\* outcome is appended and the loop goes on.
TrialExcept(w, rl) ==
    /\ RecordOutcome(w, ErrorOutcome(w), rl)
    /\ UNCHANGED raised

\* POST /score reaches service.score: _score = 0.0, detection_dict is
\* rebound to a new defaultdict, the broker queue is cleared.  Then
\* copy_detector_file, gen_ran_framework_sequence and docker.from_env run:
\* any of them may raise (file system, docker daemon), which leaves score
\* through its outer except; otherwise the loop starts on a shuffled
\* sequence.  Requests go to the first free thread of the pool.
score_begin(w) ==
    /\ pc[w] = "idle"
    /\ w \in config.pool
    /\ \A v \in Workers : WorkerOrder[v] < WorkerOrder[w] => pc[v] # "idle"
    /\ nruns < MaxRuns
    /\ nruns' = nruns + 1
    /\ latest' = w
    /\ rlog' = [rlog EXCEPT ![w] = NewRun]
    /\ cur' = [cur EXCEPT ![w] = NewTrial]
    /\ score_val' = [score_val EXCEPT ![w] = ZERO_FLOAT]
    /\ detection_dict' = EmptyDict
    /\ driver_queue' = <<>>
    /\ \/ /\ raised' = [raised EXCEPT ![w] = TRUE]
          /\ pc' = [pc EXCEPT ![w] = "finally"]
          /\ UNCHANGED seq
       \/ /\ \E s \in gen_ran_framework_sequence :
                seq' = [seq EXCEPT ![w] = s]
          /\ pc' = [pc EXCEPT ![w] = "loop"]
          /\ UNCHANGED raised
    /\ UNCHANGED <<config, waitersAttr, index, result, remaining, response, waiters,
                   containers>>
    /\ UNCHANGED <<saw, owed, got, avail>>

\* The trial goes on to its next statement.
GoOn(w, to, rl) ==
    /\ pc' = [pc EXCEPT ![w] = to]
    /\ rlog' = rl
    /\ UNCHANGED <<index, result, remaining, detection_dict, raised>>
    /\ UNCHANGED <<saw, owed, got, avail>>

\* Variant: pushcut.execute is not wrapped; its exception reaches the
\* trial's `except Exception`.
PushcutExcept_Raise(w, rl) == TrialExcept(w, rl)

\* `except Exception as e:` around pushcut.execute: the failure is logged
\* and the trial goes on to its wait.
PushcutExcept(w, rl) == GoOn(w, "wait_enter", rl)

\* Top of a trial: human_driver = None, _clear_driver_queue; on the human
\* entry pushcut.execute is called.
score_trial_begin(w) ==
    /\ pc[w] = "loop"
    /\ index[w] < Len(seq[w])
    /\ driver_queue' = <<>>
    /\ IF FrameworkName(w) = HUMAN
       THEN \/ /\ cur' = [cur EXCEPT ![w] = NewTrial]
               /\ GoOn(w, "wait_enter", rlog)
            \/ /\ cur' = [cur EXCEPT ![w] = [NewTrial EXCEPT !.fail = "pushcut"]]
               /\ PushcutExcept(w, [rlog EXCEPT ![w].pushcut_at = @ \cup {index[w]}])
       ELSE /\ cur' = [cur EXCEPT ![w] = NewTrial]
            /\ GoOn(w, "runner", rlog)
    /\ UNCHANGED <<config, waitersAttr, seq, score_val, response, waiters, containers>>
    /\ UNCHANGED <<nruns, latest>>

\* Variant: any returned driver counts as a detection.
TrialOutcome_AnyReport(w, driver) ==
    IF driver # None /\ driver # EMPTYSTR
    THEN Outcome(w, TRUE, driver)
    ELSE Outcome(w, FALSE, IF FrameworkName(w) = HUMAN THEN NO_DRIVER_REPORTED
                           ELSE NO_DRIVER_RETURNED)

\* The outcome the human branch, or the bot branch, appends for the value
\* driver its wait returned.
TrialOutcome(w, driver) ==
    IF FrameworkName(w) = HUMAN
    THEN Outcome(w, driver = FrameworkName(w),
                 IF driver # None THEN driver ELSE NO_DRIVER_REPORTED)
    ELSE IF driver # None /\ driver # EMPTYSTR
    THEN Outcome(w, driver = FrameworkName(w), driver)
    ELSE Outcome(w, FALSE, NO_DRIVER_RETURNED)

\* After the wait: the outcome is appended.
score_record(w) ==
    /\ pc[w] = "record"
    /\ RecordOutcome(w, TrialOutcome(w, result[w]), rlog)
    /\ UNCHANGED <<config, waitersAttr, seq, score_val, raised, response, driver_queue,
                   waiters, containers>>
    /\ UNCHANGED <<nruns, latest, cur>>

\* "Calculating score": results regrouped by driver name, then counted.
Aggregate(dd) ==
    LET keys    == SetToSeq(DOMAIN dd)
        all     == Flatten([k \in 1..Len(keys) |-> dd[keys[k]]])
        drivers == {all[i].driver : i \in 1..Len(all)}
        framework_results ==
            [f \in drivers |-> SelectSeq(all, LAMBDA r : r.driver = f)]
        total_detections ==
            SumFn([f \in drivers |-> Len(framework_results[f])], drivers)
        successful_detections ==
            SumFn([f \in drivers |->
                     Len(SelectSeq(framework_results[f], LAMBDA r : r.detected))],
                  drivers)
    IN  IF total_detections > 0
        THEN TrueDiv(successful_detections, total_detections)
        ELSE ZERO_FLOAT

\* The loop is over: _score is computed from detection_dict.
score_aggregate(w) ==
    /\ pc[w] = "loop"
    /\ index[w] >= Len(seq[w])
    /\ score_val' = [score_val EXCEPT ![w] = Aggregate(detection_dict)]
    /\ pc' = [pc EXCEPT ![w] = "finally"]
    /\ UNCHANGED <<config, waitersAttr, seq, index, result, remaining, raised, response,
                   detection_dict, driver_queue, waiters, containers>>
    /\ UNCHANGED hist

\* finally: _clear_driver_queue("after scoring run"); score then returns
\* _score or re-raises.
score_finally(w) ==
    /\ pc[w] = "finally"
    /\ driver_queue' = <<>>
    /\ pc' = [pc EXCEPT ![w] = "respond"]
    /\ UNCHANGED <<config, waitersAttr, seq, index, result, remaining, score_val, raised,
                   response, detection_dict, waiters, containers>>
    /\ UNCHANGED hist

\* ------------------------------------------------ post_score (router.py)
\* Variant: the handler lets the exception through (an HTTP error).
PostScoreResult_Reraise(hasRaised, value) ==
    IF hasRaised THEN [kind |-> "error", value |-> ZERO_FLOAT]
    ELSE [kind |-> "score", value |-> value]

\* What the handler returns for an outcome of service.score: None from its
\* except clause, else the score.
PostScoreResult(hasRaised, value) ==
    IF hasRaised THEN [kind |-> "null", value |-> ZERO_FLOAT]
    ELSE [kind |-> "score", value |-> value]

\* The handler returns; the locals of the call are gone.
post_score_return(w) ==
    /\ pc[w] = "respond"
    /\ response' = [response EXCEPT ![w] = PostScoreResult(raised[w], score_val[w])]
    /\ pc' = [pc EXCEPT ![w] = "responded"]
    /\ UNCHANGED <<config, waitersAttr, seq, index, result, remaining, score_val, raised,
                   detection_dict, driver_queue, waiters, containers>>
    /\ UNCHANGED hist

\* The response has left; the thread is free again and the locals of the
\* call are gone.
post_score_done(w) ==
    /\ pc[w] = "responded"
    /\ response' = [response EXCEPT ![w] = NoResponse]
    /\ pc' = [pc EXCEPT ![w] = "idle"]
    /\ seq' = [seq EXCEPT ![w] = <<>>]
    /\ index' = [index EXCEPT ![w] = 0]
    /\ score_val' = [score_val EXCEPT ![w] = ZERO_FLOAT]
    /\ raised' = [raised EXCEPT ![w] = FALSE]
    /\ cur' = [cur EXCEPT ![w] = NewTrial]
    /\ rlog' = [rlog EXCEPT ![w] = NewRun]
    /\ UNCHANGED <<config, waitersAttr, result, remaining, detection_dict, driver_queue,
                   waiters, containers>>
    /\ UNCHANGED <<nruns, latest, saw, owed, got, avail>>

\* --------------------------------------------- get_results (service.py)
\* GET /results -> service.get_results(): the global mapping when it is
\* truthy, else a new empty dict.
get_results ==
    IF detection_dict # EmptyDict THEN detection_dict ELSE EmptyDict

\* ------------------------------------------- run_bot_container (utils.py)
\* A container of the engine: its name and the thread holding its handle.
Container(w) == [name |-> FrameworkName(w), by |-> w]

\* utils.stop_container: `docker rm -f <name>`.
stop_container(cs, name) == {c \in cs : c.name # name}

\* run_bot_container up to the launch.  Network list/create/get or
\* inspect_network may raise; otherwise the iptables rules are applied, any
\* container of the same name is force-removed, and containers.run(detach=
\* True) either starts the container or raises (image missing, start
\* refused), in which case a container that was created but not started
\* stays behind.  Every raise is re-raised by run_bot_container, before its
\* try/finally holding stop and remove is entered, and lands in the trial's
\* `except Exception` of score.
run_bot_container_launch(w) ==
    /\ pc[w] = "runner"
    /\ \/ /\ TrialExcept(w, [rlog EXCEPT ![w].network_at = @ \cup {index[w]}])
          /\ cur' = [cur EXCEPT ![w].fail = "network"]
          /\ UNCHANGED containers
       \/ /\ \E left \in BOOLEAN :
                containers' = stop_container(containers, FrameworkName(w))
                              \cup (IF left THEN {Container(w)} ELSE {})
          /\ TrialExcept(w, [rlog EXCEPT ![w].launch_at = @ \cup {index[w]}])
          /\ cur' = [cur EXCEPT ![w].fail = "launch"]
       \/ /\ containers' = stop_container(containers, FrameworkName(w))
                           \cup {Container(w)}
          /\ pc' = [pc EXCEPT ![w] = "container"]
          /\ UNCHANGED <<index, result, remaining, detection_dict, raised>>
          /\ UNCHANGED <<saw, owed, got, avail, cur, rlog>>
    /\ UNCHANGED <<config, waitersAttr, seq, score_val, response, driver_queue,
                   waiters>>
    /\ UNCHANGED <<nruns, latest>>

\* _container.wait(timeout=_run_timeout) ends (exit, timeout, API error);
\* the finally clause calls stop(timeout=5) and remove(force=True), both
\* with their exceptions swallowed, and run_bot_container returns.
run_bot_container_wait(w) ==
    /\ pc[w] = "container"
    /\ \E how \in {"exit", "timeout", "api_error"}, removed \in BOOLEAN :
          /\ cur' = [cur EXCEPT ![w].cleanups = @ + 1]
          /\ containers' = IF removed THEN containers \ {Container(w)}
                           ELSE containers
    /\ pc' = [pc EXCEPT ![w] = "wait_enter"]
    /\ UNCHANGED <<config, waitersAttr, seq, index, result, remaining, score_val, raised,
                   response, detection_dict, driver_queue, waiters>>
    /\ UNCHANGED <<nruns, latest, saw, owed, got, avail, rlog>>

\* ------------------------------------------------------------ specification
Next ==
    \/ \E d \in DriverInputs : post_driver(d, Elsewhere)
    \/ \E w \in Workers :
          \/ score_begin(w)
          \/ score_trial_begin(w)
          \/ run_bot_container_launch(w)
          \/ run_bot_container_wait(w)
          \/ wait_enter(w)
          \/ wait_notified(w)
          \/ wait_timeout(w)
          \/ tick(w)
          \/ score_record(w)
          \/ score_aggregate(w)
          \/ score_finally(w)
          \/ post_score_return(w)
          \/ post_score_done(w)

Spec == Init /\ [][Next]_vars

\* A thread that is inside score keeps running, and time passes for a
\* thread inside its wait.  Requests (post_driver, score_begin) are not
\* forced to arrive.
Step(w) ==
    \/ score_trial_begin(w)
    \/ run_bot_container_launch(w)
    \/ run_bot_container_wait(w)
    \/ wait_enter(w)
    \/ wait_notified(w)
    \/ wait_timeout(w)
    \/ score_record(w)
    \/ score_aggregate(w)
    \/ score_finally(w)
    \/ post_score_return(w)
    \/ post_score_done(w)

\* The same program with the sender of every report traced.
TracedNext ==
    \/ \E d \in DriverInputs, src \in AllOrigins : post_driver_from(d, src)
    \/ \E w \in Workers :
          \/ score_begin(w)
          \/ tick(w)
          \/ Step(w)

TracedSpec == Init /\ [][TracedNext]_vars

\* The fair behaviours are explored on the single-threaded deployments.
FairInit == Init /\ Cardinality(config.pool) = 1

FairSpec ==
    /\ FairInit /\ [][Next]_vars
    /\ \A w \in Workers : WF_vars(Step(w)) /\ WF_vars(tick(w))

\* =============================================================== properties
\* The outcome a worker's step has just appended for its trial.
Appended(w) == Last(detection_dict'[index[w]])

\* The step in which worker w's trial records the outcome of its wait.
Records(w) == pc[w] = "record" /\ pc'[w] = "loop"

\* C1: for every trial with expected identity F, if a report equal to F was
\* submitted during the trial (after its pre-trial clear, before its wait
\* ended, the run of the bot container included) the recorded outcome has
\* detected = TRUE; if the reports submitted during the trial were other,
\* non-empty identities only, it has detected = FALSE.
C1_ReportDuringTrialIsMatched ==
    [][\A w \in Workers :
          Records(w) =>
             /\ saw[w].expected => Appended(w).detected
             /\ (saw[w].other /\ ~saw[w].expected) => ~Appended(w).detected]_vars

\* C2: a report submitted while a trial is blocked in its wait is returned
\* by that trial's wait, and a report a wait returns was submitted while
\* that very trial was blocked (so no other and no later trial gets it).
C2_ReportWhileWaitingIsDelivered ==
    \A w \in Workers :
       pc[w] = "record" =>
          /\ owed[w] => (~got[w].none /\ TK(w) \in got[w].owed)
          /\ ~got[w].none => TK(w) \in got[w].owed

\* C3: a report submitted when no trial was waiting on the broker is never
\* returned by a wait.
C3_StaleReportNeverReturned ==
    \A w \in Workers : ~got[w].none => got[w].owed # {}

\* C3 witness: on a single-threaded server that queues reports, a report for
\* the trial's own identity was submitted during the trial, never while it
\* was blocked, and the trial's wait has ended without a report.
C3_Witness ==
    \E w \in Workers :
       /\ config.pool = {w} /\ waitersAttr
       /\ pc[w] = "record" /\ saw[w].expected /\ ~owed[w]
       /\ got[w].none /\ result[w] = None

\* All outcomes held by a result mapping.
AllOutcomes(dd) == UNION {{<<k, i>> : i \in 1..Len(dd[k])} : k \in DOMAIN dd}
NumOutcomes(dd) == Cardinality(AllOutcomes(dd))
NumMatched(dd)  == Cardinality({x \in AllOutcomes(dd) : dd[x[1]][x[2]].detected})

\* C4: the score is (outcomes with detected = TRUE) / (outcomes) of the
\* result mapping the run aggregates, 0.0 when it holds no outcome, and so
\* lies in [0, 1].
C4_ScoreIsMatchedOverTotal ==
    [][\A w \in Workers :
          (pc[w] = "loop" /\ pc'[w] = "finally") =>
             LET n == NumOutcomes(detection_dict)
                 m == NumMatched(detection_dict)
                 v == score_val'[w]
             IN  /\ n = 0 => v = ZERO_FLOAT
                 /\ n > 0 => v[1] * n = m * v[2]
                 /\ v[2] > 0 /\ 0 <= v[1] /\ v[1] <= v[2]]_vars

\* C4 witness: a run has aggregated two outcomes, one of them matched.
C4_Witness ==
    \E w \in Workers :
       /\ pc[w] = "finally" /\ ~raised[w]
       /\ NumOutcomes(detection_dict) = 2 /\ NumMatched(detection_dict) = 1
       /\ score_val[w] = <<1, 2>>

RunnerRaisedAt(w) == rlog[w].network_at \cup rlog[w].launch_at

AfterLoop == {"finally", "respond", "responded"}

\* C5: when the container runner raises on a trial, the trial gets the
\* failed outcome (detected = FALSE, error placeholder), the loop goes on,
\* and the run ends with one outcome appended per trial and returns a score.
C5_RunnerFailureKeepsRunGoing ==
    [][\A w \in Workers :
          /\ (pc[w] = "runner" /\ cur'[w].fail \in {"network", "launch"}) =>
                /\ pc'[w] = "loop" /\ index'[w] = index[w] + 1 /\ ~raised'[w]
                /\ index[w] \in DOMAIN detection_dict'
                /\ Appended(w) = ErrorOutcome(w)
          /\ (pc'[w] \in AfterLoop /\ RunnerRaisedAt(w)' # {}) =>
                /\ ~raised'[w]
                /\ index'[w] = Len(seq'[w])
                /\ rlog'[w].appended = Len(seq'[w])
                /\ pc'[w] = "responded" => response'[w].kind = "score"]_vars

\* C5 witness: the runner raised on trial 0 of a two-trial run and the run
\* is returning its score.
C5_Witness ==
    \E w \in Workers :
       /\ pc[w] = "responded" /\ 0 \in RunnerRaisedAt(w)
       /\ Len(seq[w]) = 2 /\ rlog[w].appended = 2
       /\ response[w].kind = "score"

\* C6: every trial that invoked the container runner has had exactly one
\* stop+remove attempt once its runner has returned or raised.
C6_CleanupOncePerTrial ==
    \A w \in Workers :
       /\ cur[w].fail \in {"network", "launch"} => cur[w].cleanups = 1
       /\ (pc[w] \in {"wait_enter", "waiting", "notified", "record"}
           /\ FrameworkName(w) # HUMAN) => cur[w].cleanups = 1

\* C7 as stated: a network failure in the runner leaves score through its
\* raise path, and no further trial of the run is executed.
C7_NetworkFailureIsFatal ==
    [][\A w \in Workers :
          (pc[w] = "runner" /\ cur'[w].fail = "network") =>
             (raised'[w] /\ pc'[w] = "finally")]_vars

\* C7 amended: a network failure in the runner is caught by the trial's
\* handler: the trial gets the failed outcome, the loop goes on to the
\* remaining trials, and score does not raise.
C7_NetworkFailureIsTrialLocal ==
    [][\A w \in Workers :
          /\ (pc[w] = "runner" /\ cur'[w].fail = "network") =>
                /\ pc'[w] = "loop" /\ ~raised'[w]
                /\ ~Appended(w).detected
                /\ Appended(w).predicted = ERROR_PREDICTED
          /\ (pc'[w] \in AfterLoop /\ rlog'[w].network_at # {}) =>
                (~raised'[w] /\ index'[w] = Len(seq'[w]))]_vars

\* C7 witness: after a network failure on trial 0 the next trial is running.
C7_Witness ==
    \E w \in Workers :
       /\ 0 \in rlog[w].network_at
       /\ index[w] = 1 /\ InTrial(w)

\* C8: a wait during which the queue never held a report returns None, and
\* every wait returns.
C8_WaitTimesOut ==
    /\ [](\A w \in Workers :
            (pc[w] = "record" /\ ~avail[w]) => result[w] = None)
    /\ \A w \in Workers :
          (pc[w] \in {"waiting", "notified"}) ~> (pc[w] = "record")

\* C8 witness: a wait that saw no report has returned None although a
\* report for its trial had been submitted before it blocked.
C8_Witness ==
    \E w \in Workers :
       pc[w] = "record" /\ ~avail[w] /\ result[w] = None /\ saw[w].expected

\* C9: the POST /score handler returns null when score raised and exactly
\* the score when it returned.
C9_HandlerSwallowsErrors ==
    \A w \in Workers :
       pc[w] = "responded" =>
          /\ raised[w] => response[w].kind = "null"
          /\ ~raised[w] => response[w] = [kind |-> "score", value |-> score_val[w]]

\* C9 witness: score raised and the handler has returned null.
C9_Witness ==
    \E w \in Workers : pc[w] = "responded" /\ raised[w] /\ response[w].kind = "null"

\* C10: at most one execution of score is between its initial reset and its
\* final broker clear.
C10_OneRunInFlight ==
    Cardinality({w \in Workers : InFlight(w)}) <= 1

\* C11: get_results is empty before any run has started, every outcome it
\* returns was recorded by the run that started last, and the step that
\* starts a run leaves it empty.
C11_ResultsOfLatestRun ==
    /\ [](/\ nruns = 0 => get_results = EmptyDict
          /\ \A x \in AllOutcomes(get_results) :
                get_results[x[1]][x[2]].by = latest)
    /\ [][\A w \in Workers :
             (pc[w] = "idle" /\ pc'[w] # "idle") => get_results' = EmptyDict]_vars

\* C12: every POST /driver, whatever the report and the state of the broker,
\* is answered without an error.
C12_PostDriverNeverFails ==
    [][(\E d \in DriverInputs, src \in AllOrigins : post_driver(d, src))
          => post_driver_status = 200]_vars

\* C13: the outcome a trial records has detected = TRUE exactly when its
\* wait consumed a report and the identity of that report equals the trial's
\* framework name; the outcome of a trial whose body raised has
\* detected = FALSE.
C13_DetectedIffObservedEqualsExpected ==
    [][\A w \in Workers :
          /\ Records(w) =>
                (Appended(w).detected <=>
                    (/\ ~got[w].none
                     /\ Strip(OrEmpty(got[w].val)) = FrameworkName(w)))
          /\ (pc[w] = "runner" /\ pc'[w] = "loop") => ~Appended(w).detected]_vars

\* C13 witness: the mapping holds a matched outcome and an outcome whose
\* observed identity is another framework's.
C13_Witness ==
    \E x, y \in AllOutcomes(detection_dict) :
       /\ detection_dict[x[1]][x[2]].detected
       /\ ~detection_dict[y[1]][y[2]].detected
       /\ detection_dict[y[1]][y[2]].predicted \in {HUMAN, CHROME}

WaitPcs == {"wait_enter", "waiting", "notified"}

\* C14: a report is queued behind the reports already queued, a wait that
\* returns a report takes the oldest one and leaves the others queued in
\* their order, and a step of a wait removes at most one report.
C14_FifoOnePerWait ==
    [][/\ Len(driver_queue') > Len(driver_queue) =>
             /\ Len(driver_queue') = Len(driver_queue) + 1
             /\ SubSeq(driver_queue', 1, Len(driver_queue)) = driver_queue
       /\ \A w \in Workers :
             /\ (pc[w] \in WaitPcs /\ pc'[w] = "record" /\ ~got'[w].none) =>
                   /\ driver_queue # <<>>
                   /\ got'[w] = Head(driver_queue)
                   /\ driver_queue' = Tail(driver_queue)
             /\ (pc[w] \in WaitPcs /\ pc'[w] # pc[w]) =>
                   Len(driver_queue') >= Len(driver_queue) - 1]_vars

\* C14 witness: two reports were queued together (the second was submitted
\* while this trial was still blocked); the trial's wait has returned the
\* first and the second is still queued.
C14_Witness ==
    \E w \in Workers :
       /\ pc[w] = "record" /\ ~got[w].none
       /\ driver_queue # <<>>
       /\ TK(w) \in Head(driver_queue).owed
       /\ got[w].val = HUMAN /\ Head(driver_queue).val = CHROME

\* C15: when a run's loop is over, the result mapping it aggregates holds
\* exactly one outcome for each trial index 0..N-1 of the run's sequence,
\* so the denominator of the score is N.
C15_OneOutcomePerTrial ==
    [][\A w \in Workers :
          (pc[w] = "loop" /\ pc'[w] = "finally") =>
             /\ DOMAIN detection_dict = 0..(Len(seq[w]) - 1)
             /\ \A i \in DOMAIN detection_dict : Len(detection_dict[i]) = 1
             /\ NumOutcomes(detection_dict) = Len(seq[w])]_vars

\* The human trial of worker w begins and pushcut.execute fails.
PushcutFails(w) ==
    pc[w] = "loop" /\ index[w] \in rlog'[w].pushcut_at \ rlog[w].pushcut_at

\* A step of worker w that records the outcome of a trial whose
\* notification had failed.
RecordsAfterPushcutFailure(w) == Records(w) /\ cur[w].fail = "pushcut"

\* What C16 as stated and C16 as amended share: the failure does not end
\* the run, the trial goes to its wait and then appends one outcome, the
\* loop goes on and ends past the last trial without score raising.
PushcutFailureNotFatal(w) ==
    /\ PushcutFails(w) =>
          /\ pc'[w] = "wait_enter" /\ ~raised'[w]
          /\ rlog'[w].appended = rlog[w].appended
    /\ RecordsAfterPushcutFailure(w) =>
          /\ index[w] \in rlog[w].pushcut_at
          /\ rlog'[w].appended = rlog[w].appended + 1
          /\ index'[w] = index[w] + 1 /\ ~raised'[w]
    /\ (pc'[w] \in AfterLoop /\ rlog'[w].pushcut_at # {}) =>
          (~raised'[w] /\ index'[w] = Len(seq'[w]))

WaitReturns(w) == pc[w] \in WaitPcs /\ pc'[w] = "record"

ClearsBroker(w) ==
    \/ pc[w] = "idle" /\ pc'[w] # "idle"
    \/ pc[w] = "loop" /\ pc'[w] \in {"runner", "wait_enter"}
    \/ pc[w] = "finally" /\ pc'[w] = "respond"

\* C19: the broker queue is empty right after a run starts, right before
\* each trial is executed and after score has returned or raised; and it is
\* empty whenever no run is in flight.
C19_QueueEmptyOutsideRuns ==
    /\ []((\A w \in Workers : ~InFlight(w)) => driver_queue = <<>>)
    /\ [][\A w \in Workers : ClearsBroker(w) => driver_queue' = <<>>]_vars

\* C19 witness: a run in which a report was queued and matched has left
\* score, no run is in flight, and the queue is empty.
C19_Witness ==
    /\ \A w \in Workers : ~InFlight(w)
    /\ driver_queue = <<>>
    /\ \E w \in Workers :
          /\ pc[w] = "responded" /\ response[w].kind = "score"
          /\ response[w].value[1] > 0

\* The bot trials of worker w's run that have invoked the container runner.
RunnerInvoked(w) ==
    {j \in 0..(Len(seq[w]) - 1) :
        /\ seq[w][j + 1] # HUMAN
        /\ \/ j < index[w]
           \/ j = index[w] /\ pc[w] \in TrialPcs \cup {"record"}}

\* container_name of trial j of worker w's run.
ContainerName(w, j) == seq[w][j + 1]

\* C20: within a run no two bot trials use the same container name, and
\* once a trial's runner has returned or raised no container the trial
\* created exists.
C20_ContainerNameUniqueAndGone ==
    \A w \in Workers :
       /\ \A i, j \in RunnerInvoked(w) :
             i # j => ContainerName(w, i) # ContainerName(w, j)
       /\ pc[w] # "container" => \A c \in containers : c.by # w

\* The step in which worker w's loop goes from trial index[w] to the next.
NextTrial(w) == index'[w] = index[w] + 1

\* score has returned its score or raised: the handler is about to answer.
ScoreLeft(w) == pc[w] = "respond"

\* C21: every started scoring run terminates (score returns or raises, so
\* that again and again no run is inside score), whatever the sequence, the
\* containers and the reporters do; the loop goes
\* to the next trial only in the step that appends the outcome of the
\* current one, so a trial in progress has all earlier outcomes recorded.
\* (Calls into the docker engine, iptables and pushcut are steps that
\* return or raise; the two waits are the only places a thread stays in.)
C21_RunTerminates ==
    /\ []<>(\A w \in Workers : ~InFlight(w))
    /\ [](\A w \in Workers : InTrial(w) => rlog[w].appended = index[w])
    /\ [][\A w \in Workers :
            NextTrial(w) =>
               /\ index[w] \in DOMAIN detection_dict'
               /\ Appended(w).by = w
               /\ rlog'[w].appended = rlog[w].appended + 1]_vars

\* C21 witness: a run of two trials has left score without raising, both
\* outcomes recorded.
C21_Witness ==
    \E w \in Workers :
       /\ ScoreLeft(w) /\ ~raised[w]
       /\ Len(seq[w]) = 2 /\ index[w] = 2
       /\ rlog[w].appended = 2

\* Worker w is blocked in _driver_condition.wait, in the waiter list.
IsWaiter(w) == \E i \in 1..Len(waiters) : waiters[i] = w

\* The container of worker w's bot trial has been launched and the runner
\* has not returned yet.
ContainerRuns(w) == pc[w] = "container"

\* C22: in a bot trial the broker wait starts only after run_bot_container
\* has returned, the container stopped and removed: no trial is a waiter on
\* the broker while its container is there, and a report posted while a
\* container runs is posted with no waiter registered.
C22_NoWaiterWhileContainerRuns ==
    /\ [](\A w \in Workers :
            IsWaiter(w) =>
               /\ ~ContainerRuns(w)
               /\ FrameworkName(w) # HUMAN =>
                     /\ cur[w].cleanups = 1
                     /\ Container(w) \notin containers)
    /\ [][((\E d \in DriverInputs : post_driver(d, Elsewhere))
             /\ \E w \in Workers : ContainerRuns(w))
          => waiters = <<>>]_vars

====
